---- MODULE Spec2Model ----
(***************************************************************************)
(* Model of src/src/backend/graph.js: the identifier codec (idToString,    *)
(* stringToID) and the graph merge (mergeGraphs, mergeGraphsConsistent,    *)
(* mergeGraphsArbitrary).                                                  *)
(*                                                                         *)
(* JavaScript strings are sequences of one-character strings.  A function  *)
(* call completes either normally or abruptly: Return(v) or Throw(e).      *)
(* Objects whose property order is observable (JSON.stringify,             *)
(* Object.keys) carry that order explicitly.                               *)
(***************************************************************************)
EXTENDS Integers, Sequences, FiniteSets, TLC

VARIABLES
  pc,          \* position of the caller: which call completed last
  id,          \* the ID last passed to idToString
  string,      \* the string last passed to stringToID
  encoded,     \* completion of the last idToString call
  decoded,     \* completion of the last stringToID call
  chained,     \* the argument of the last call was the previous call's result
  acc,         \* the accumulator graph of the caller's left-to-right fold
  g1,          \* first argument of the last merge call
  g2,          \* second argument of the last merge call
  policy,      \* which merge entry point was called last
  merged,      \* completion of the last merge call
  calls,       \* the reducer invocations of the last merge call, in order
  seenNodes,   \* node tokens of every graph handed to the fold so far
  seenEdges,   \* edge tokens of every graph handed to the fold so far
  heap,        \* the mapping objects when the last merge call ended
  history      \* the merge calls of a caller that compares their results

vars == <<pc, id, string, encoded, decoded, chained,
          acc, g1, g2, policy, merged, calls, seenNodes, seenEdges, heap,
          history>>

codecVars == <<id, string, encoded, decoded, chained>>
mergeVars == <<acc, g1, g2, policy, merged, calls, seenNodes, seenEdges, heap,
               history>>

----------------------------------------------------------------------------
(* Bounds *)

MaxFieldLen == 2     \* longest ID field
MaxStringLen == 4    \* longest string handed to stringToID from outside
MaxPayload == 1      \* numeric payloads are 1..MaxPayload

----------------------------------------------------------------------------
(* Completions and JavaScript values *)

Return(v) == [type |-> "return", value |-> v]
Throw(e) == [type |-> "throw", error |-> e]
NotCalled == [type |-> "none"]

Returned(c) == c.type = "return"
Threw(c) == c.type = "throw"

\* Flow's annotations are erased at run time: a parameter annotated
\* `string` receives whatever the caller passes.
JSString(s) == [typeof |-> "string", value |-> s]
JSObject(o) == [typeof |-> "object", value |-> o]

SEP == "$"
Chars == {"a", SEP}

StringsUpTo(n) == UNION {[1..k -> Chars] : k \in 0..n}

\* JSON.stringify of a string: the characters between double quotes (no
\* character of Chars needs escaping).
JSONstringifyString(s) == <<"\"">> \o s \o <<"\"">>

\* String.prototype.includes for a one-character needle.
includes(s, c) == \E i \in 1..Len(s) : s[i] = c

\* String.prototype.split for a one-character separator: the pieces between
\* separators, so k separators give k + 1 pieces and "" gives [""].
RECURSIVE splitFrom(_, _, _, _, _)
splitFrom(s, sep, i, cur, parts) ==
  IF i > Len(s) THEN Append(parts, cur)
  ELSE IF s[i] = sep THEN splitFrom(s, sep, i + 1, <<>>, Append(parts, cur))
  ELSE splitFrom(s, sep, i + 1, Append(cur, s[i]), parts)

\* A split that drops empty pieces.
splitNonEmpty(s, sep) ==
  SelectSeq(splitFrom(s, sep, 1, <<>>, <<>>), LAMBDA piece : Len(piece) > 0)

split(s, sep) == splitFrom(s, sep, 1, <<>>, <<>>)

----------------------------------------------------------------------------
(* Identifier codec *)

ID(p, r, n) == [pluginName |-> p, repositoryName |-> r, name |-> n]

IDs == {ID(p, r, n) : p \in StringsUpTo(MaxFieldLen),
                      r \in StringsUpTo(MaxFieldLen),
                      n \in StringsUpTo(MaxFieldLen)}

InvalidField(field, value) ==
  [name |-> "Error", message |-> "must not include $",
   field |-> field, escaped |-> JSONstringifyString(value)]

\* idToString without the check of id.name.
idToStringNameUnchecked(i) ==
  IF includes(i.pluginName, SEP)
    THEN Throw(InvalidField("id.pluginName", i.pluginName))
  ELSE IF includes(i.repositoryName, SEP)
    THEN Throw(InvalidField("id.repositoryName", i.repositoryName))
  ELSE Return(i.pluginName \o <<SEP>> \o i.repositoryName \o <<SEP>> \o i.name)

\* idToString that joins repositoryName before pluginName.
idToStringSwapped(i) ==
  IF includes(i.pluginName, SEP)
    THEN Throw(InvalidField("id.pluginName", i.pluginName))
  ELSE IF includes(i.repositoryName, SEP)
    THEN Throw(InvalidField("id.repositoryName", i.repositoryName))
  ELSE IF includes(i.name, SEP)
    THEN Throw(InvalidField("id.name", i.name))
  ELSE Return(i.repositoryName \o <<SEP>> \o i.pluginName \o <<SEP>> \o i.name)

idToString(i) ==
  IF includes(i.pluginName, SEP)
    THEN Throw(InvalidField("id.pluginName", i.pluginName))
  ELSE IF includes(i.repositoryName, SEP)
    THEN Throw(InvalidField("id.repositoryName", i.repositoryName))
  ELSE IF includes(i.name, SEP)
    THEN Throw(InvalidField("id.name", i.name))
  ELSE Return(i.pluginName \o <<SEP>> \o i.repositoryName \o <<SEP>> \o i.name)

NotAFunction ==
  [name |-> "TypeError", message |-> "string.split is not a function"]

NotTwoSeparators(s) ==
  [name |-> "Error", message |-> "Input should have exactly two $s",
   escaped |-> JSONstringifyString(s)]

\* stringToID that rejects only fewer than three parts.
stringToIDAtLeastThree(arg) ==
  IF arg.typeof # "string" THEN Throw(NotAFunction)
  ELSE LET parts == split(arg.value, SEP) IN
       IF Len(parts) < 3 THEN Throw(NotTwoSeparators(arg.value))
       ELSE Return(ID(parts[1], parts[2], parts[3]))

stringToID(arg) ==
  IF arg.typeof # "string" THEN Throw(NotAFunction)
  ELSE LET parts == split(arg.value, SEP) IN
       IF Len(parts) # 3 THEN Throw(NotTwoSeparators(arg.value))
       ELSE Return(ID(parts[1], parts[2], parts[3]))

----------------------------------------------------------------------------
(* Graph values *)

\* A payload is `mixed`: numbers and null stand for it here.
Num(k) == [kind |-> "number", n |-> k]
Null == [kind |-> "null", n |-> 0]
Payloads == {Num(k) : k \in 1..MaxPayload} \cup {Null}

\* keys: the order in which the object's properties were written, which is
\* the order JSON.stringify and Object.keys enumerate them in.
GraphNode(i, es, p, ks) == [id |-> i, edges |-> es, payload |-> p, keys |-> ks]

GraphEdge(i, s, d, w, p, ks) ==
  [id |-> i, sourceId |-> s, destId |-> d, weight |-> w, payload |-> p,
   keys |-> ks]

\* The content of a node or edge: its properties without their order.
Content(v) == [k \in DOMAIN v \ {"keys"} |-> v[k]]

\* A {[stringID]: value} object: its entries in insertion order, which is
\* the order of Object.keys for keys that are not array indices (a token
\* holds two separators, so it never is one).
Entry(k, v) == [key |-> k, value |-> v]
keysOf(m) == [i \in 1..Len(m) |-> m[i].key]
KeySet(m) == {m[i].key : i \in 1..Len(m)}
has(m, k) == k \in KeySet(m)
get(m, k) == (CHOOSE e \in {m[i] : i \in 1..Len(m)} : e.key = k).value

\* m[k] = v: an existing property keeps its position, a new one is added
\* last.
set(m, k, v) ==
  IF has(m, k) THEN [i \in 1..Len(m) |-> IF m[i].key = k THEN Entry(k, v) ELSE m[i]]
  ELSE Append(m, Entry(k, v))

Graph(ns, es) == [nodes |-> ns, edges |-> es]
EmptyGraph == Graph(<<>>, <<>>)

----------------------------------------------------------------------------
(* JSON.stringify: the JSON text as a sequence of lexical tokens *)

RECURSIVE joinWithCommas(_)
joinWithCommas(texts) ==
  IF Len(texts) = 0 THEN <<>>
  ELSE IF Len(texts) = 1 THEN texts[1]
  ELSE texts[1] \o <<",">> \o joinWithCommas(Tail(texts))

JSONstringifyNumber(n) == <<ToString(n)>>

JSONstringifyPayload(p) ==
  IF p.kind = "number" THEN JSONstringifyNumber(p.n) ELSE <<"null">>

JSONstringifyID(i) ==
  <<"{">> \o joinWithCommas(<<
      <<"pluginName", ":">> \o JSONstringifyString(i.pluginName),
      <<"repositoryName", ":">> \o JSONstringifyString(i.repositoryName),
      <<"name", ":">> \o JSONstringifyString(i.name) >>) \o <<"}">>

JSONstringifyIDs(is) ==
  <<"[">> \o joinWithCommas([k \in 1..Len(is) |-> JSONstringifyID(is[k])])
          \o <<"]">>

JSONstringifyProperty(v, k) ==
  <<k, ":">> \o
  CASE k = "id" -> JSONstringifyID(v.id)
    [] k = "edges" -> JSONstringifyIDs(v.edges)
    [] k = "sourceId" -> JSONstringifyID(v.sourceId)
    [] k = "destId" -> JSONstringifyID(v.destId)
    [] k = "weight" -> JSONstringifyNumber(v.weight)
    [] k = "payload" -> JSONstringifyPayload(v.payload)

\* JSON.stringify of a node or an edge: its properties in the order they
\* were written.
JSONstringify(v) ==
  <<"{">> \o joinWithCommas([k \in 1..Len(v.keys) |->
                               JSONstringifyProperty(v, v.keys[k])])
          \o <<"}">>

----------------------------------------------------------------------------
(* Graph merge *)

\* A value of object type substituted into a template literal is converted
\* by Object.prototype.toString.
templateObject(o) == <<"[object Object]">>

DistinctError(what, shown) ==
  [name |-> "Error", message |-> what, shown |-> shown]

\* confluentNodeReducer with the comparison inverted.
confluentNodeReducerInverted(a, b) ==
  IF JSONstringify(a) # JSONstringify(b) THEN Return(a)
  ELSE LET parsed == stringToID(JSObject(a.id)) IN
       IF Threw(parsed) THEN parsed
       ELSE Throw(DistinctError("distinct nodes with id",
                                templateObject(parsed.value)))

confluentNodeReducer(a, b) ==
  IF JSONstringify(a) = JSONstringify(b) THEN Return(a)
  ELSE LET parsed == stringToID(JSObject(a.id)) IN
       IF Threw(parsed) THEN parsed
       ELSE Throw(DistinctError("distinct nodes with id",
                                templateObject(parsed.value)))

\* confluentEdgeReducer with the comparison inverted.
confluentEdgeReducerInverted(a, b) ==
  IF JSONstringify(a) # JSONstringify(b) THEN Return(a)
  ELSE LET parsed == stringToID(JSObject(a.id)) IN
       IF Threw(parsed) THEN parsed
       ELSE Throw(DistinctError("distinct edge with id",
                                templateObject(parsed.value)))

confluentEdgeReducer(a, b) ==
  IF JSONstringify(a) = JSONstringify(b) THEN Return(a)
  ELSE LET parsed == stringToID(JSObject(a.id)) IN
       IF Threw(parsed) THEN parsed
       ELSE Throw(DistinctError("distinct edge with id",
                                templateObject(parsed.value)))

\* A reducer that keeps the earlier value.
earlierReducer(a, b) == Return(a)

\* The reducer mergeGraphsArbitrary passes for nodes and for edges.
laterReducer(a, b) == Return(b)

\* Reducers a caller of mergeGraphs supplies: the existing node with the
\* larger of the two payloads (null below every number), and the existing
\* edge with the larger of the two weights.
payloadRank(p) == IF p.kind = "number" THEN p.n ELSE 0

keepMaxPayload(a, b) ==
  Return(IF payloadRank(b.payload) > payloadRank(a.payload)
           THEN [a EXCEPT !.payload = b.payload] ELSE a)

keepMaxWeight(a, b) ==
  Return(IF b.weight > a.weight THEN [a EXCEPT !.weight = b.weight] ELSE a)

\* A reducer is named by a string; calling it is a dispatch on the name.
callReducer(reducer, a, b) ==
  CASE reducer = "confluentNodeReducer" -> confluentNodeReducer(a, b)
    [] reducer = "confluentEdgeReducer" -> confluentEdgeReducer(a, b)
    [] reducer = "later" -> laterReducer(a, b)
    [] reducer = "keepMaxPayload" -> keepMaxPayload(a, b)
    [] reducer = "keepMaxWeight" -> keepMaxWeight(a, b)

\* One reducer invocation: for which mapping and key, with which arguments,
\* and how it completed.
Call(mapping, key, reducer, a, b, completion) ==
  [mapping |-> mapping, key |-> key, reducer |-> reducer,
   existing |-> a, incoming |-> b, completion |-> completion]

\* The state of one forEach loop: the mapping being written, the reducer
\* calls made, and the exception that ended the loop, if any.
LoopState(m, cs, thrown) == [map |-> m, calls |-> cs, thrown |-> thrown]

\* A result that starts empty instead of as a copy.
spreadNothing(m) == <<>>

\* {...m}: a new object with m's properties in m's order.
spread(m) == m

\* The callback with the reducer's two arguments exchanged.
forEachBodySwapped(st, key, mapping, m1, m2, reducer) ==
  IF has(st.map, key)
    THEN LET c == callReducer(reducer, get(m2, key), get(m1, key))
             cs == Append(st.calls,
                          Call(mapping, key, reducer, get(m2, key), get(m1, key), c))
         IN IF Threw(c) THEN LoopState(st.map, cs, c)
            ELSE LoopState(set(st.map, key, c.value), cs, st.thrown)
    ELSE st

\* The callback of the two forEach loops, for one key of g2's mapping:
\* a key the result holds is overwritten with the reducer's value, and a
\* reducer that throws ends the loop.
forEachBody(st, key, mapping, m1, m2, reducer) ==
  IF has(st.map, key)
    THEN LET c == callReducer(reducer, get(m1, key), get(m2, key))
             cs == Append(st.calls,
                          Call(mapping, key, reducer, get(m1, key), get(m2, key), c))
         IN IF Threw(c) THEN LoopState(st.map, cs, c)
            ELSE LoopState(set(st.map, key, c.value), cs, st.thrown)
    ELSE st

\* A loop that visits every key, whatever was thrown.
forEachVisitsAll(keys, i, st) == i <= Len(keys)

\* An exception leaves forEach: no later key is visited.
forEachContinues(keys, i, st) == i <= Len(keys) /\ ~Threw(st.thrown)

RECURSIVE forEach(_, _, _, _, _, _, _)
forEach(keys, i, st, mapping, m1, m2, reducer) ==
  IF forEachContinues(keys, i, st)
    THEN forEach(keys, i + 1, forEachBody(st, keys[i], mapping, m1, m2, reducer),
                 mapping, m1, m2, reducer)
    ELSE st

\* mergeGraphs(g1, g2, nodeReducer, edgeReducer): the completion, the
\* reducer calls made on the way, and what the two mappings of `result`
\* held when the call ended.  An exception thrown in the first loop leaves
\* the function, so the second loop does not start.
mergeGraphs(a, b, nodeReducer, edgeReducer) ==
  LET ns == forEach(keysOf(b.nodes), 1,
                    LoopState(spread(a.nodes), <<>>, NotCalled),
                    "nodes", a.nodes, b.nodes, nodeReducer)
      es == forEach(keysOf(b.edges), 1,
                    LoopState(spread(a.edges), ns.calls, ns.thrown),
                    "edges", a.edges, b.edges, edgeReducer)
  IN [completion |-> IF Threw(es.thrown) THEN es.thrown
                     ELSE Return(Graph(ns.map, es.map)),
      calls |-> es.calls,
      written |-> Graph(ns.map, es.map)]

\* A result whose mapping is the very object it was to copy.
sameObject(source, fresh) == source

\* {...source} creates an object: its reference is a fresh one.
newObject(source, fresh) == fresh

InputRefs == {"g1.nodes", "g1.edges", "g2.nodes", "g2.edges"}
NewRefs == {"new.nodes", "new.edges"}

NoHeap == [objects |-> [r \in InputRefs \cup NewRefs |-> <<>>],
           result |-> [nodes |-> "none", edges |-> "none"]]

\* The mapping objects after mergeGraphs(a, b, ...) ended with outcome r:
\* every write of the call went to the two objects of line 63, which
\* `result` refers to.
objectsAfter(a, b, r) ==
  LET ns == newObject("g1.nodes", "new.nodes")
      es == newObject("g1.edges", "new.edges")
      before == [ref \in InputRefs \cup NewRefs |->
                   CASE ref = "g1.nodes" -> a.nodes
                     [] ref = "g1.edges" -> a.edges
                     [] ref = "g2.nodes" -> b.nodes
                     [] ref = "g2.edges" -> b.edges
                     [] OTHER -> <<>>]
  IN [objects |-> [before EXCEPT ![ns] = r.written.nodes,
                                 ![es] = r.written.edges],
      result |-> [nodes |-> ns, edges |-> es]]

mergeGraphsConsistent(a, b) ==
  mergeGraphs(a, b, "confluentNodeReducer", "confluentEdgeReducer")

mergeGraphsArbitrary(a, b) == mergeGraphs(a, b, "later", "later")

----------------------------------------------------------------------------
(* The graphs producers hand to the merge *)

PluginName == <<"p">>
RepositoryName == <<"r">>

NodeA == ID(PluginName, RepositoryName, <<"a">>)
NodeB == ID(PluginName, RepositoryName, <<"b">>)
NodeIDs == {NodeA, NodeB}
EdgeIDs == {ID(PluginName, RepositoryName, <<"e">>)}

\* Producers mint the keys of a graph's mappings with idToString.
token(i) == idToString(i).value

\* A producer writes all its nodes with one object literal, so the nodes
\* of one graph share their property order; two producers may differ.
NodeKeyOrders == {<<"id", "edges", "payload">>, <<"payload", "edges", "id">>}
EdgeKeyOrder == <<"id", "sourceId", "destId", "weight", "payload">>

NodeEntries(order) ==
  {Entry(token(i), GraphNode(i, <<>>, p, order)) : i \in NodeIDs, p \in Payloads}

EdgeEntries ==
  {Entry(token(i), GraphEdge(i, s, d, 1, Null, EdgeKeyOrder)) :
     i \in EdgeIDs, s \in {NodeA}, d \in NodeIDs}

\* The mappings over a set of entries: every insertion order, no key twice.
MapsOver(entries, n) ==
  {m \in UNION {[1..k -> entries] : k \in 0..n} :
     \A i, j \in 1..Len(m) : m[i].key = m[j].key => i = j}

NodeMaps == UNION {MapsOver(NodeEntries(o), Cardinality(NodeIDs)) : o \in NodeKeyOrders}
EdgeMaps == MapsOver(EdgeEntries, Cardinality(EdgeIDs))

Graphs == {Graph(ns, es) : ns \in NodeMaps, es \in EdgeMaps}

----------------------------------------------------------------------------
(* Callers of the codec *)

NoID == ID(<<>>, <<>>, <<>>)

CodecIdle ==
  /\ id = NoID /\ string = <<>> /\ encoded = NotCalled /\ decoded = NotCalled
  /\ chained = FALSE

MergeIdle ==
  /\ acc = EmptyGraph /\ g1 = EmptyGraph /\ g2 = EmptyGraph /\ policy = "none"
  /\ merged = NotCalled /\ calls = <<>> /\ seenNodes = {} /\ seenEdges = {}
  /\ heap = NoHeap /\ history = <<>>

CodecInit == pc = "start" /\ CodecIdle /\ MergeIdle

\* idToString(i) for an ID built by the caller.
Encode(i) ==
  /\ pc = "start"
  /\ pc' = "idToString"
  /\ id' = i
  /\ encoded' = idToString(i)
  /\ string' = <<>>
  /\ decoded' = NotCalled
  /\ chained' = FALSE
  /\ UNCHANGED mergeVars

\* stringToID(s) for a string from outside.
Decode(s) ==
  /\ pc = "start"
  /\ pc' = "stringToID"
  /\ string' = s
  /\ decoded' = stringToID(JSString(s))
  /\ id' = NoID
  /\ encoded' = NotCalled
  /\ chained' = FALSE
  /\ UNCHANGED mergeVars

\* stringToID(idToString(i)): the token just returned is decoded.
DecodeEncoded ==
  /\ pc = "idToString"
  /\ Returned(encoded)
  /\ pc' = "stringToID"
  /\ string' = encoded.value
  /\ decoded' = stringToID(JSString(encoded.value))
  /\ chained' = TRUE
  /\ UNCHANGED <<id, encoded>>
  /\ UNCHANGED mergeVars

\* idToString(stringToID(s)): the ID just returned is encoded.
EncodeDecoded ==
  /\ pc = "stringToID"
  /\ Returned(decoded)
  /\ pc' = "idToString"
  /\ id' = decoded.value
  /\ encoded' = idToString(decoded.value)
  /\ chained' = TRUE
  /\ UNCHANGED <<string, decoded>>
  /\ UNCHANGED mergeVars

CodecNext ==
  \/ \E i \in IDs : Encode(i)
  \/ \E s \in StringsUpTo(MaxStringLen) : Decode(s)
  \/ DecodeEncoded
  \/ EncodeDecoded

CodecSpec == CodecInit /\ [][CodecNext]_vars

----------------------------------------------------------------------------
(* The caller's fold: acc = merge(acc, g) for one graph after another *)

MergeInit ==
  /\ pc = "fold"
  /\ CodecIdle
  /\ acc \in Graphs
  /\ g1 = EmptyGraph /\ g2 = EmptyGraph /\ policy = "none"
  /\ merged = NotCalled /\ calls = <<>>
  /\ seenNodes = KeySet(acc.nodes)
  /\ seenEdges = KeySet(acc.edges)
  /\ heap = NoHeap /\ history = <<>>

Merge(g, name, result) ==
  LET r == result IN
  /\ pc = "fold"
  /\ pc' = IF Returned(r.completion) THEN "returned" ELSE "threw"
  /\ g1' = acc
  /\ g2' = g
  /\ policy' = name
  /\ merged' = r.completion
  /\ calls' = r.calls
  /\ heap' = objectsAfter(acc, g, r)
  /\ seenNodes' = seenNodes \cup KeySet(g.nodes)
  /\ seenEdges' = seenEdges \cup KeySet(g.edges)
  /\ UNCHANGED <<acc, history>>
  /\ UNCHANGED codecVars

CallMergeGraphsArbitrary(g) ==
  Merge(g, "mergeGraphsArbitrary", mergeGraphsArbitrary(acc, g))

CallMergeGraphsConsistent(g) ==
  Merge(g, "mergeGraphsConsistent", mergeGraphsConsistent(acc, g))

\* mergeGraphs called with reducers of the caller's own.
CallMergeGraphs(g) ==
  Merge(g, "mergeGraphs", mergeGraphs(acc, g, "keepMaxPayload", "keepMaxWeight"))

\* The returned graph becomes the accumulator.  A merge that threw returns
\* nothing: the exception leaves the fold.
FoldStep ==
  /\ pc = "returned"
  /\ pc' = "fold"
  /\ acc' = merged.value
  /\ g1' = EmptyGraph /\ g2' = EmptyGraph /\ policy' = "none"
  /\ merged' = NotCalled /\ calls' = <<>>
  /\ heap' = NoHeap
  /\ UNCHANGED <<seenNodes, seenEdges, history>>
  /\ UNCHANGED codecVars

MergeNext ==
  \/ \E g \in Graphs : CallMergeGraphsArbitrary(g)
  \/ \E g \in Graphs : CallMergeGraphsConsistent(g)
  \/ \E g \in Graphs : CallMergeGraphs(g)
  \/ FoldStep

MergeSpec == MergeInit /\ [][MergeNext]_vars

----------------------------------------------------------------------------
(* Callers that make several merge calls and compare the results *)

BuiltIn == {"mergeGraphsArbitrary", "mergeGraphsConsistent"}

callBuiltIn(name, a, b) ==
  IF name = "mergeGraphsConsistent" THEN mergeGraphsConsistent(a, b)
  ELSE mergeGraphsArbitrary(a, b)

CallRecord(name, a, b, completion) ==
  [policy |-> name, g1 |-> a, g2 |-> b, merged |-> completion]

\* One more call of a built-in merge, kept in the history of calls: result
\* is what the call of name with (a, b) comes to.
Chain(from, to, name, a, b, result) ==
  LET r == result IN
  /\ pc = from
  /\ pc' = to
  /\ g1' = a
  /\ g2' = b
  /\ policy' = name
  /\ merged' = r.completion
  /\ calls' = r.calls
  /\ heap' = objectsAfter(a, b, r)
  /\ history' = Append(history, CallRecord(name, a, b, r.completion))
  /\ UNCHANGED <<acc, seenNodes, seenEdges>>
  /\ UNCHANGED codecVars

ChainInit(start, graphs) ==
  /\ pc = start
  /\ CodecIdle
  /\ acc \in graphs
  /\ g1 = EmptyGraph /\ g2 = EmptyGraph /\ policy = "none"
  /\ merged = NotCalled /\ calls = <<>>
  /\ seenNodes = KeySet(acc.nodes)
  /\ seenEdges = KeySet(acc.edges)
  /\ heap = NoHeap /\ history = <<>>

\* merge(acc, g), then either the same two graphs the other way round, or
\* the same graph folded into the result once more.
PairInit == ChainInit("pair", Graphs)

CallFirst(name, g) ==
  Chain("pair", "first", name, acc, g, callBuiltIn(name, acc, g))

\* mergeGraphsConsistent(g2, g1) after mergeGraphsConsistent(g1, g2).
CallSwapped ==
  /\ policy = "mergeGraphsConsistent"
  /\ Chain("first", "swapped", policy, g2, g1, mergeGraphsConsistent(g2, g1))

\* acc = merge(acc, g); acc = merge(acc, g): the graph returned by the first
\* call is the accumulator of the second.
CallRefold ==
  /\ Returned(merged)
  /\ Chain("first", "refolded", policy, merged.value, g2,
           callBuiltIn(policy, merged.value, g2))

PairNext ==
  \/ \E name \in BuiltIn, g \in Graphs : CallFirst(name, g)
  \/ CallSwapped
  \/ CallRefold

PairSpec == PairInit /\ [][PairNext]_vars

\* Three graphs merged with mergeGraphsArbitrary in both groupings:
\* merge(merge(a, b), c), then merge(a, merge(b, c)).
MaxAssocNodes == 1
AssocGraphs == {g \in Graphs : Len(g.nodes) <= MaxAssocNodes}

AssocInit == ChainInit("a", AssocGraphs)

CallAB(b) ==
  Chain("a", "ab", "mergeGraphsArbitrary", acc, b, mergeGraphsArbitrary(acc, b))

CallABthenC(c) ==
  Chain("ab", "ab_c", "mergeGraphsArbitrary", history[1].merged.value, c,
        mergeGraphsArbitrary(history[1].merged.value, c))

CallBC ==
  Chain("ab_c", "bc", "mergeGraphsArbitrary", history[1].g2, history[2].g2,
        mergeGraphsArbitrary(history[1].g2, history[2].g2))

CallAthenBC ==
  Chain("bc", "a_bc", "mergeGraphsArbitrary", history[1].g1,
        history[3].merged.value,
        mergeGraphsArbitrary(history[1].g1, history[3].merged.value))

AssocNext ==
  \/ \E b \in AssocGraphs : CallAB(b)
  \/ \E c \in AssocGraphs : CallABthenC(c)
  \/ CallBC
  \/ CallAthenBC

AssocSpec == AssocInit /\ [][AssocNext]_vars

----------------------------------------------------------------------------
(* Vocabulary of the properties *)

Called == pc \in {"returned", "threw"}
Shared(m1, m2) == KeySet(m1) \cap KeySet(m2)
OnlyIn(m1, m2) == KeySet(m1) \ KeySet(m2)

\* Every key of ks is a key of m that maps to what it maps to in from.
Holds(m, ks, from) == \A k \in ks : has(m, k) /\ get(m, k) = get(from, k)

\* The two mappings give every key they share the same value.
Agree(m1, m2) == \A k \in Shared(m1, m2) : get(m1, k) = get(m2, k)

----------------------------------------------------------------------------
(* C1 *)

\* C1: a merge that returns holds every node and edge token that only the
\* incoming graph g2 has, with g2's value, so the accumulator of a fold
\* holds exactly the tokens of all graphs folded so far.
C1_InsertsIncomingOnly ==
  /\ pc = "returned" =>
       /\ Holds(merged.value.nodes, OnlyIn(g2.nodes, g1.nodes), g2.nodes)
       /\ Holds(merged.value.edges, OnlyIn(g2.edges, g1.edges), g2.edges)
  /\ pc = "fold" =>
       /\ KeySet(acc.nodes) = seenNodes
       /\ KeySet(acc.edges) = seenEdges

----------------------------------------------------------------------------
(* C2 *)

\* C2: mergeGraphsArbitrary never throws, and every node and edge token
\* that both graphs hold maps to g2's value in the result.
C2_LastWriteWins ==
  (Called /\ policy = "mergeGraphsArbitrary") =>
    /\ Returned(merged)
    /\ Holds(merged.value.nodes, Shared(g1.nodes, g2.nodes), g2.nodes)
    /\ Holds(merged.value.edges, Shared(g1.edges, g2.edges), g2.edges)

\* mergeGraphsArbitrary returned for graphs that share a node and an edge
\* token and disagree on both.
C2_Witness ==
  /\ pc = "returned" /\ policy = "mergeGraphsArbitrary"
  /\ \E k \in Shared(g1.nodes, g2.nodes) : get(g1.nodes, k) # get(g2.nodes, k)
  /\ \E k \in Shared(g1.edges, g2.edges) : get(g1.edges, k) # get(g2.edges, k)

----------------------------------------------------------------------------
(* C3 *)

\* The values under a shared token differ in content (property order
\* aside).
Differ(m1, m2) == \E k \in Shared(m1, m2) : Content(get(m1, k)) # Content(get(m2, k))

\* The error is the merge conflict of graph.js lines 85 and 95, and the
\* text it shows is the token of the id, or the id's three fields.
NamesConflict(e, m1, m2) ==
  /\ e.name = "Error"
  /\ e.message \in {"distinct nodes with id", "distinct edge with id"}
  /\ \E k \in Shared(m1, m2) :
       /\ get(m1, k) # get(m2, k)
       /\ \/ e.shown = k
          \/ e.shown = JSONstringifyID(get(m1, k).id)

\* C3: when g1 and g2 share a node or edge token whose values differ,
\* mergeGraphsConsistent throws a merge conflict that names the id of a
\* conflicting node or edge, and throws nothing else.
C3_ConflictNamesId ==
  (/\ Called /\ policy = "mergeGraphsConsistent"
   /\ Differ(g1.nodes, g2.nodes) \/ Differ(g1.edges, g2.edges)) =>
    /\ Threw(merged)
    /\ \/ NamesConflict(merged.error, g1.nodes, g2.nodes)
       \/ NamesConflict(merged.error, g1.edges, g2.edges)

----------------------------------------------------------------------------
(* C4 *)

\* C4: when g1 and g2 give every shared node and edge token the same
\* value, mergeGraphsConsistent returns, and the result maps every shared
\* token to that value.
C4_ConfluentSuccess ==
  (/\ Called /\ policy = "mergeGraphsConsistent"
   /\ Agree(g1.nodes, g2.nodes) /\ Agree(g1.edges, g2.edges)) =>
    /\ Returned(merged)
    /\ Holds(merged.value.nodes, Shared(g1.nodes, g2.nodes), g1.nodes)
    /\ Holds(merged.value.nodes, Shared(g1.nodes, g2.nodes), g2.nodes)
    /\ Holds(merged.value.edges, Shared(g1.edges, g2.edges), g1.edges)
    /\ Holds(merged.value.edges, Shared(g1.edges, g2.edges), g2.edges)

\* mergeGraphsConsistent returned for graphs that share a node token and
\* an edge token and agree on them, g1 holding a node token g2 lacks.
C4_Witness ==
  /\ pc = "returned" /\ policy = "mergeGraphsConsistent"
  /\ Shared(g1.nodes, g2.nodes) # {}
  /\ Shared(g1.edges, g2.edges) # {}
  /\ Agree(g1.nodes, g2.nodes) /\ Agree(g1.edges, g2.edges)
  /\ OnlyIn(g1.nodes, g2.nodes) # {}
  /\ Len(calls) = 2

----------------------------------------------------------------------------
(* C5 *)

SeparatorFree(i) ==
  /\ ~includes(i.pluginName, SEP)
  /\ ~includes(i.repositoryName, SEP)
  /\ ~includes(i.name, SEP)

\* C5: for an ID whose three fields hold no separator, idToString returns,
\* and stringToID of the returned token returns an ID with the same three
\* fields.
C5_RoundTrip ==
  /\ (pc = "idToString" /\ SeparatorFree(id)) => Returned(encoded)
  /\ (pc = "stringToID" /\ chained /\ SeparatorFree(id)) =>
       /\ Returned(encoded)
       /\ string = encoded.value
       /\ Returned(decoded)
       /\ decoded.value.pluginName = id.pluginName
       /\ decoded.value.repositoryName = id.repositoryName
       /\ decoded.value.name = id.name

\* The round trip was made for an ID with two empty fields.
C5_Witness ==
  /\ pc = "stringToID" /\ chained
  /\ id = ID(<<>>, <<"a", "a">>, <<>>)
  /\ Returned(decoded)

----------------------------------------------------------------------------
(* C6 *)

FieldNamed(i, field) ==
  CASE field = "id.pluginName" -> i.pluginName
    [] field = "id.repositoryName" -> i.repositoryName
    [] field = "id.name" -> i.name

\* C6: idToString throws exactly when some field holds the separator; the
\* error is an Error whose message names, and quotes, a field that holds
\* it, and no token is returned; a token that is returned holds the three
\* fields as they are.
C6_EncodeRejection ==
  (pc = "idToString") =>
    /\ Threw(encoded) <=> ~SeparatorFree(id)
    /\ Threw(encoded) =>
         /\ "value" \notin DOMAIN encoded
         /\ encoded.error.name = "Error"
         /\ encoded.error.field \in {"id.pluginName", "id.repositoryName", "id.name"}
         /\ includes(FieldNamed(id, encoded.error.field), SEP)
         /\ encoded.error.escaped =
              JSONstringifyString(FieldNamed(id, encoded.error.field))
    /\ Returned(encoded) =>
         encoded.value =
           id.pluginName \o <<SEP>> \o id.repositoryName \o <<SEP>> \o id.name

\* idToString threw for an ID whose only field with a separator is the
\* last one.
C6_Witness ==
  /\ pc = "idToString"
  /\ id = ID(<<"a">>, <<>>, <<"a", SEP>>)
  /\ Threw(encoded)
  /\ encoded.error.field = "id.name"

----------------------------------------------------------------------------
(* C7 *)

Separators(s) == Cardinality({i \in 1..Len(s) : s[i] = SEP})

\* C7: stringToID of a string throws exactly when the string does not hold
\* two separators, and the error is the malformed-token Error; otherwise
\* it returns the three pieces between the separators, in order.
C7_DecodeRejection ==
  (pc = "stringToID") =>
    /\ Threw(decoded) <=> Separators(string) # 2
    /\ Threw(decoded) =>
         /\ decoded.error.name = "Error"
         /\ decoded.error.message = "Input should have exactly two $s"
    /\ Returned(decoded) =>
         /\ SeparatorFree(decoded.value)
         /\ string = decoded.value.pluginName \o <<SEP>>
                       \o decoded.value.repositoryName \o <<SEP>>
                       \o decoded.value.name

\* stringToID threw for a string from outside with three separators.
C7_Witness ==
  /\ pc = "stringToID" /\ ~chained
  /\ string = <<SEP, "a", SEP, SEP>>
  /\ Threw(decoded)

----------------------------------------------------------------------------
(* C8 *)

\* C8: merging the empty graph with g, in either order and under either
\* policy, returns g.
C8_MergeIdentity ==
  Called =>
    /\ g1 = EmptyGraph => (Returned(merged) /\ merged.value = g2)
    /\ g2 = EmptyGraph => (Returned(merged) /\ merged.value = g1)

----------------------------------------------------------------------------
(* C9 *)

\* C9: no reducer is called for a token that only g1 holds, and a merge
\* that returns maps every such token to g1's value.
C9_AccumulatorOnlyUntouched ==
  Called =>
    /\ \A n \in 1..Len(calls) :
         /\ calls[n].mapping = "nodes" => calls[n].key \notin OnlyIn(g1.nodes, g2.nodes)
         /\ calls[n].mapping = "edges" => calls[n].key \notin OnlyIn(g1.edges, g2.edges)
    /\ Returned(merged) =>
         /\ Holds(merged.value.nodes, OnlyIn(g1.nodes, g2.nodes), g1.nodes)
         /\ Holds(merged.value.edges, OnlyIn(g1.edges, g2.edges), g1.edges)

\* A merge returned after calling a reducer, for a g1 that holds a node
\* token and an edge token g2 lacks.
C9_Witness ==
  /\ pc = "returned"
  /\ Len(calls) > 0
  /\ OnlyIn(g1.nodes, g2.nodes) # {}
  /\ OnlyIn(g1.edges, g2.edges) # {}

----------------------------------------------------------------------------
(* C10 *)

\* The tokens both graphs hold, in the order the merge visits them: g2's
\* node keys, then g2's edge keys.
ProcessingOrder ==
  LET ns == SelectSeq(keysOf(g2.nodes), LAMBDA k : has(g1.nodes, k))
      es == SelectSeq(keysOf(g2.edges), LAMBDA k : has(g1.edges, k))
  IN [n \in 1..Len(ns) |-> <<"nodes", ns[n]>>]
       \o [n \in 1..Len(es) |-> <<"edges", es[n]>>]

\* The reducer of the merge finds the two values under the token unequal.
ConflictAt(visit) ==
  JSONstringify(get(g1[visit[1]], visit[2])) # JSONstringify(get(g2[visit[1]], visit[2]))

\* A merge that threw: it visited the shared tokens in processing order up
\* to the first conflict and no further, and its only outcome is the error
\* thrown there.
StoppedAtFirstConflict ==
  /\ policy = "mergeGraphsConsistent"
  /\ DOMAIN merged = {"type", "error"}
  /\ Len(calls) \in 1..Len(ProcessingOrder)
  /\ \A n \in 1..Len(calls) :
       /\ <<calls[n].mapping, calls[n].key>> = ProcessingOrder[n]
       /\ ConflictAt(ProcessingOrder[n]) <=> n = Len(calls)
       /\ Threw(calls[n].completion) <=> n = Len(calls)
  /\ merged = calls[Len(calls)].completion

\* C10: a mergeGraphsConsistent call that meets a conflict stops at the
\* first one in processing order and returns no graph, and the fold makes
\* no step after it.
C10_FailFast ==
  /\ [](pc = "threw" => StoppedAtFirstConflict)
  /\ [][pc # "threw"]_vars

\* The merge threw at the second shared token, with a third one unvisited.
C10_Witness ==
  /\ pc = "threw"
  /\ Len(calls) = 2
  /\ Len(ProcessingOrder) = 3

----------------------------------------------------------------------------
(* C11 *)

\* C11: for every string on which stringToID returns, idToString of the
\* returned ID returns, and returns that very string.
C11_DecodeThenEncode ==
  (pc = "idToString" /\ chained /\ Returned(decoded)) =>
    /\ id = decoded.value
    /\ Returned(encoded)
    /\ encoded.value = string

\* A string from outside with an empty first and last part was decoded and
\* the ID encoded again.
C11_Witness ==
  /\ pc = "idToString" /\ chained
  /\ string = <<SEP, "a", "a", SEP>>
  /\ Returned(decoded)
  /\ encoded # NotCalled

----------------------------------------------------------------------------
(* C12 *)

\* C12: when a merge call has returned or thrown, the four mappings of g1
\* and g2 hold what they held before the call, and the two mappings of a
\* returned graph are objects other than those four and hold the returned
\* entries.
C12_InputsUntouchedResultFresh ==
  Called =>
    /\ heap.objects["g1.nodes"] = g1.nodes
    /\ heap.objects["g1.edges"] = g1.edges
    /\ heap.objects["g2.nodes"] = g2.nodes
    /\ heap.objects["g2.edges"] = g2.edges
    /\ Returned(merged) =>
         /\ heap.result.nodes \notin InputRefs
         /\ heap.result.edges \notin InputRefs
         /\ heap.result.nodes # heap.result.edges
         /\ heap.objects[heap.result.nodes] = merged.value.nodes
         /\ heap.objects[heap.result.edges] = merged.value.edges

\* A merge returned after writing a node and an edge that differ from
\* g1's.
C12_Witness ==
  /\ pc = "returned"
  /\ merged.value.nodes # g1.nodes
  /\ merged.value.edges # g1.edges

----------------------------------------------------------------------------
(* C14 *)

\* The reducer calls made for one mapping are one call for each token
\* both mappings hold and none for any other, each with g1's value first
\* and g2's second, by the reducer given for that mapping, and the result
\* maps the token to what that call returned.
AppliedOncePerShared(mapping, reducer) ==
  /\ \A k \in Shared(g1[mapping], g2[mapping]) :
       Cardinality({n \in 1..Len(calls) :
                      calls[n].mapping = mapping /\ calls[n].key = k}) = 1
  /\ \A n \in 1..Len(calls) :
       calls[n].mapping = mapping =>
         /\ calls[n].key \in Shared(g1[mapping], g2[mapping])
         /\ calls[n].reducer = reducer
         /\ calls[n].existing = get(g1[mapping], calls[n].key)
         /\ calls[n].incoming = get(g2[mapping], calls[n].key)
         /\ Returned(calls[n].completion)
         /\ get(merged.value[mapping], calls[n].key) = calls[n].completion.value

\* C14: mergeGraphs with the caller's reducers calls the node reducer once
\* for each shared node token and the edge reducer once for each shared
\* edge token, with (existing, incoming), stores what they return, and
\* calls neither for anything else.
C14_PolicyApplication ==
  (Called /\ policy = "mergeGraphs") =>
    /\ Returned(merged)
    /\ AppliedOncePerShared("nodes", "keepMaxPayload")
    /\ AppliedOncePerShared("edges", "keepMaxWeight")
    /\ \A n \in 1..Len(calls) : calls[n].mapping \in {"nodes", "edges"}

\* The caller's reducers were applied to two shared nodes and a shared
\* edge, and one node of the result is neither g1's nor g2's value.
C14_Witness ==
  /\ pc = "returned" /\ policy = "mergeGraphs"
  /\ Len(calls) = 3
  /\ \E k \in Shared(g1.nodes, g2.nodes) :
       /\ get(merged.value.nodes, k) # get(g1.nodes, k)
       /\ get(merged.value.nodes, k) # get(g2.nodes, k)

----------------------------------------------------------------------------
(* C15 *)

\* C15: the confluent reducers accept two values exactly when they have
\* the same properties with the same values, whatever the order the
\* properties were written in.
C15_DeepEquality ==
  (Called /\ policy = "mergeGraphsConsistent") =>
    \A n \in 1..Len(calls) :
      Returned(calls[n].completion)
        <=> Content(calls[n].existing) = Content(calls[n].incoming)

----------------------------------------------------------------------------
(* C16 *)

\* Every edge's sourceId and destId encode to a key of the graph's nodes.
NoDanglingEdge(g) ==
  \A n \in 1..Len(g.edges) :
    /\ has(g.nodes, idToString(g.edges[n].value.sourceId).value)
    /\ has(g.nodes, idToString(g.edges[n].value.destId).value)

\* C16: a graph returned by mergeGraphsArbitrary or mergeGraphsConsistent
\* for two graphs without dangling edges has no dangling edge, and so has
\* the accumulator of a fold over such graphs.
C16_NoDanglingEdgeCreated ==
  /\ (/\ pc = "returned"
      /\ policy \in {"mergeGraphsArbitrary", "mergeGraphsConsistent"}
      /\ NoDanglingEdge(g1) /\ NoDanglingEdge(g2)) => NoDanglingEdge(merged.value)

----------------------------------------------------------------------------
(* C13 *)

\* Equal graphs: the same node and edge tokens, each with the same content.
SameMapping(m1, m2) ==
  /\ KeySet(m1) = KeySet(m2)
  /\ \A k \in KeySet(m1) : Content(get(m1, k)) = Content(get(m2, k))

SameGraph(x, y) == SameMapping(x.nodes, y.nodes) /\ SameMapping(x.edges, y.edges)

\* C13: for all graphs a, b, c, mergeGraphsArbitrary(mergeGraphsArbitrary(a,
\* b), c) and mergeGraphsArbitrary(a, mergeGraphsArbitrary(b, c)) are equal
\* graphs, token set and values alike.
C13_Associative ==
  pc = "a_bc" => SameGraph(history[2].merged.value, history[4].merged.value)

----------------------------------------------------------------------------
(* C17 *)

\* C17: mergeGraphsConsistent(g1, g2) throws if and only if
\* mergeGraphsConsistent(g2, g1) throws, and when both return they return
\* equal graphs.
C17_OrderIndependent ==
  pc = "swapped" =>
    /\ Threw(history[1].merged) <=> Threw(merged)
    /\ (Returned(history[1].merged) /\ Returned(merged)) =>
         SameGraph(history[1].merged.value, merged.value)

----------------------------------------------------------------------------
(* C18 *)

NoConflict == \A n \in 1..Len(calls) : Returned(calls[n].completion)

\* C18: under both built-in policies merge(g, g) returns g, without a
\* conflict, and folding a graph into the accumulator a second time returns
\* the accumulator as the first fold left it.
C18_Idempotent ==
  /\ (pc = "first" /\ g1 = g2) => (merged = Return(g1) /\ NoConflict)
  /\ pc = "refolded" => (merged = Return(g1) /\ NoConflict)

\* A refold of a graph that shares a node and an edge with the accumulator,
\* after a first fold that changed the accumulator.
C18_Witness ==
  /\ pc = "refolded" /\ g1 # g2 /\ Len(calls) >= 2
  /\ history[1].g1 # g1

====
